---- MODULE Spec2Model ----
(***************************************************************************)
(* Model of the ClickHouse datasource connector (src/index.js):            *)
(*   getRunner(options)        -> runner closure holding one client handle *)
(*   runner(queryText, path)   -> async: client.query, rows.json, reshape  *)
(*   testConnection(opts)      -> true                                     *)
(* The vendor client (@clickhouse/client) and the console are the          *)
(* environment: the client may resolve or reject either await, with any    *)
(* failure value and any JSON body.                                        *)
(***************************************************************************)
EXTENDS Integers, Sequences, FiniteSets, TLC

VARIABLES clients,      \* handles made by createClient, in creation order
          runners,      \* closures returned by getRunner, in creation order
          inv,          \* runner invocations (one async activation each)
          submissions,  \* requests the client received through client.query
          log,          \* console output (console.debug / console.error)
          probes        \* testConnection calls and what each returned

vars == <<clients, runners, inv, submissions, log, probes>>

----------------------------------------------------------------------------
(* Bounds of the exploration *)
MaxCalls == 4
WideRows == 2

----------------------------------------------------------------------------
(* JSON values a row can carry, tagged with their JavaScript runtime type *)
JsonValue(t, v) == [t |-> t, v |-> v]
NumOne == JsonValue("number", "1")
StrX == JsonValue("string", "x")
JsonNull == JsonValue("null", "null")
JsonTrue == JsonValue("boolean", "true")
JsonObj == JsonValue("object", "{}")

\* the typeof operator on the values above
TypeOf(value) ==
  CASE value.t = "number" -> "number"
    [] value.t = "string" -> "string"
    [] value.t = "boolean" -> "boolean"
    [] value.t = "null" -> "object"
    [] value.t = "object" -> "object"

\* EvidenceType enumeration of @evidence-dev/db-commons
EvidenceTypeNUMBER == "number"
EvidenceTypeSTRING == "string"

\* A row is a JSON object: its entries in Object.keys enumeration order,
\* no key twice.
Entry(k, v) == [k |-> k, v |-> v]
DistinctKeys(row) == \A m, n \in 1..Len(row) : row[m].k = row[n].k => m = n
RowsOver(keys, values) ==
  UNION {{row \in [1..n -> {Entry(k, v) : k \in keys, v \in values}] :
            DistinctKeys(row)} : n \in 0..Cardinality(keys)}
\* the arrays rows.json() can materialize: at most maxRows rows
BodiesOver(rowSet, maxRows) == UNION {[1..n -> rowSet] : n \in 0..maxRows}

\* Inputs of the concurrent exploration (Spec)
\* a working configuration, and one with an unreachable address and a
\* wrong password
Configs ==
  {[url |-> "http://ch:8123", username |-> "default", password |-> "s3cret"],
   [url |-> "http://unreachable:8123", username |-> "default", password |-> "wrong"]}
QueryTexts == {"SELECT 1 as a", "SELEC"}
\* failure values of client.query and of rows.json()
QueryErrors == {"ECONNREFUSED", "AUTHENTICATION_FAILED"}
JsonErrors == {"ECONNRESET"}
Bodies == {<<>>, << <<Entry("a", NumOne)>> >>, << <<Entry("a", StrX)>> >>}

\* Inputs of the single-invocation exploration (SpecWide)
WideConfigs ==
  {[url |-> "http://ch:8123", username |-> "default", password |-> "s3cret"]}
WideValues == {NumOne, StrX, JsonNull, JsonTrue, JsonObj}
WideBodies == BodiesOver(RowsOver({"a", "b"}, WideValues), WideRows)

----------------------------------------------------------------------------
(* index.js 43-50: construction *)

\* options.<name>: a property the object lacks reads as undefined
Prop(options, name) ==
  IF name \in DOMAIN options THEN options[name] ELSE "undefined"

\* variant: the debug line prints the password option
DebugEntryLeaky(options) ==
  [level |-> "debug", args |-> <<"SomeOption = ", Prop(options, "password")>>,
   inv |-> 0]

\* index.js 44: the template literal `SomeOption = ${options.SomeOption}`
DebugEntry(options) ==
  [level |-> "debug", args |-> <<"SomeOption = ", Prop(options, "SomeOption")>>,
   inv |-> 0]

\* variant: username and password passed in each other's place
CreateClientSwapped(options) ==
  [url |-> Prop(options, "url"),
   username |-> Prop(options, "password"),
   password |-> Prop(options, "username")]

\* index.js 46-50: createClient({url, username, password})
CreateClient(options) ==
  [url |-> Prop(options, "url"),
   username |-> Prop(options, "username"),
   password |-> Prop(options, "password")]

\* variant: construction also sends a probe query through the new client
GetRunnerPing(options) ==
  /\ log' = Append(log, DebugEntry(options))
  /\ clients' = Append(clients, CreateClient(options))
  /\ runners' = Append(runners, [client |-> Len(clients) + 1, options |-> options])
  /\ submissions' = Append(submissions,
       [client |-> Len(clients) + 1,
        params |-> [query |-> "SELECT 1", format |-> "JSONEachRow"],
        reply |-> "pending", body |-> [st |-> "pending", rows |-> <<>>, error |-> "none"]])
  /\ UNCHANGED <<inv, probes>>

\* index.js 43-78: getRunner logs, creates the client, returns the closure
GetRunner(options) ==
  /\ log' = Append(log, DebugEntry(options))
  /\ clients' = Append(clients, CreateClient(options))
  /\ runners' = Append(runners, [client |-> Len(clients) + 1, options |-> options])
  /\ UNCHANGED <<inv, submissions, probes>>

----------------------------------------------------------------------------
(* index.js 52-77: the runner closure *)

NoOutput == [rows |-> <<>>, columnTypes |-> <<>>, expectedRowCount |-> 0 - 1]
NoBody == [st |-> "pending", rows |-> <<>>, error |-> "none"]

\* index.js 54-57: the argument of client.query
QueryParams(queryText) == [query |-> queryText, format |-> "JSONEachRow"]

\* index.js 52-57: a call of the runner runs synchronously up to the first
\* await: it hands the query to the client and suspends on the promise.
Runner(r, queryText) ==
  /\ submissions' = Append(submissions,
       [client |-> runners[r].client, params |-> QueryParams(queryText),
        reply |-> "pending", body |-> NoBody])
  /\ inv' = Append(inv,
       [runner |-> r, queryText |-> queryText, req |-> Len(submissions) + 1,
        pc |-> "awaitQuery", rows |-> 0, output |-> NoOutput, thrown |-> "none"])
  /\ UNCHANGED <<clients, runners, log, probes>>

\* index.js 74: console.error('Error executing query:', error)
ErrorEntry(i, error) ==
  [level |-> "error", args |-> <<"Error executing query:", error>>, inv |-> i]

\* variant: the catch block throws a new wrapping error
CatchWrap(i, error) ==
  /\ log' = Append(log, ErrorEntry(i, error))
  /\ inv' = [inv EXCEPT ![i].pc = "thrown", ![i].thrown = "QueryError"]

\* index.js 73-76: the catch block logs once and rethrows the caught value
Catch(i, error) ==
  /\ log' = Append(log, ErrorEntry(i, error))
  /\ inv' = [inv EXCEPT ![i].pc = "thrown", ![i].thrown = error]

\* index.js 54: the await resumes with the ResultSet of this call's request
QueryResolved(i) ==
  /\ inv[i].pc = "awaitQuery"
  /\ submissions' = [submissions EXCEPT ![inv[i].req].reply = "ResultSet"]
  /\ inv' = [inv EXCEPT ![i].pc = "awaitJson", ![i].rows = inv[i].req]
  /\ UNCHANGED <<clients, runners, log, probes>>

\* index.js 54, 73-76: client.query rejects with error
QueryRejected(i, error) ==
  /\ inv[i].pc = "awaitQuery"
  /\ submissions' = [submissions EXCEPT ![inv[i].req].reply = error]
  /\ Catch(i, error)
  /\ UNCHANGED <<clients, runners, probes>>

\* variant: result[0] without the || {} default
FirstRowNoDefault(result) ==
  IF Len(result) = 0 THEN [t |-> "undefined", obj |-> <<>>]
  ELSE [t |-> "object", obj |-> result[1]]

\* index.js 64: result[0] || {}  (result[0] of an empty array is undefined)
FirstRow(result) ==
  IF Len(result) = 0 THEN [t |-> "object", obj |-> <<>>]
  ELSE [t |-> "object", obj |-> result[1]]

\* index.js 66: typeof result[0][key] === 'number' ? NUMBER : STRING
EvidenceTypeOf(value) ==
  IF TypeOf(value) = "number" THEN EvidenceTypeNUMBER ELSE EvidenceTypeSTRING

\* variant: the value is sampled from the last row that has the key
ColumnTypesLastRow(result) ==
  LET first == FirstRow(result).obj
      Has(row, key) == \E m \in 1..Len(row) : row[m].k = key
      Last(key) == CHOOSE r \in 1..Len(result) :
                     /\ Has(result[r], key)
                     /\ \A q \in (r + 1)..Len(result) : ~Has(result[q], key)
      ValueIn(row, key) == row[CHOOSE m \in 1..Len(row) : row[m].k = key].v
  IN [n \in 1..Len(first) |->
        [name |-> first[n].k,
         evidenceType |-> EvidenceTypeOf(ValueIn(result[Last(first[n].k)], first[n].k)),
         typeFidelity |-> "inferred"]]

\* index.js 64-68: Object.keys(result[0] || {}).map(...)
ColumnTypes(result) ==
  LET first == FirstRow(result).obj
  IN [n \in 1..Len(first) |->
        [name |-> first[n].k,
         evidenceType |-> EvidenceTypeOf(first[n].v),
         typeFidelity |-> "inferred"]]

\* variant: expectedRowCount taken from the column list
TransformCountColumns(result) ==
  [threw |-> FALSE, error |-> "none",
   output |-> [rows |-> result,
               columnTypes |-> ColumnTypes(result),
               expectedRowCount |-> Len(ColumnTypes(result))]]

\* variant: every value converted to the kind inferred for its column
TransformCoerce(result) ==
  LET cts == ColumnTypes(result)
      KindOf(key) ==
        IF \E m \in 1..Len(cts) : cts[m].name = key
        THEN cts[CHOOSE m \in 1..Len(cts) : cts[m].name = key].evidenceType
        ELSE "none"
      Coerce(e) ==
        IF KindOf(e.k) = EvidenceTypeNUMBER /\ e.v.t # "number"
        THEN Entry(e.k, JsonValue("number", e.v.v))
        ELSE IF KindOf(e.k) = EvidenceTypeSTRING /\ e.v.t # "string"
        THEN Entry(e.k, JsonValue("string", e.v.v))
        ELSE e
  IN [threw |-> FALSE, error |-> "none",
      output |-> [rows |-> [r \in 1..Len(result) |->
                             [n \in 1..Len(result[r]) |-> Coerce(result[r][n])]],
                  columnTypes |-> cts,
                  expectedRowCount |-> Len(result)]]

\* index.js 62-70: the output object; Object.keys(undefined) throws TypeError
Transform(result) ==
  IF FirstRow(result).t = "undefined"
  THEN [threw |-> TRUE, error |-> "TypeError", output |-> NoOutput]
  ELSE [threw |-> FALSE, error |-> "none",
        output |-> [rows |-> result,
                    columnTypes |-> ColumnTypes(result),
                    expectedRowCount |-> Len(result)]]

\* variant: rows kept in one variable per runner, shared by its invocations
ResultSetShared(i) ==
  LET same == {j \in 1..Len(inv) : inv[j].runner = inv[i].runner /\ inv[j].rows # 0}
  IN inv[CHOOSE j \in same : \A k \in same : k <= j].rows

\* index.js 59: the ResultSet this invocation calls json() on (its local rows)
ResultSetOf(i) == inv[i].rows

\* index.js 59-72: rows.json() resolves with the array body; the output is
\* built and returned (a throw while building it lands in the catch block)
JsonResolved(i, body) ==
  /\ inv[i].pc = "awaitJson"
  /\ submissions' = [submissions EXCEPT
       ![ResultSetOf(i)].body = [st |-> "ok", rows |-> body, error |-> "none"]]
  /\ LET t == Transform(body)
     IN IF t.threw
        THEN Catch(i, t.error)
        ELSE /\ inv' = [inv EXCEPT ![i].pc = "returned", ![i].output = t.output]
             /\ log' = log
  /\ UNCHANGED <<clients, runners, probes>>

\* index.js 59, 73-76: rows.json() rejects with error
JsonRejected(i, error) ==
  /\ inv[i].pc = "awaitJson"
  /\ submissions' = [submissions EXCEPT
       ![ResultSetOf(i)].body = [st |-> "err", rows |-> <<>>, error |-> error]]
  /\ Catch(i, error)
  /\ UNCHANGED <<clients, runners, probes>>

----------------------------------------------------------------------------
(* index.js 122-124: testConnection *)

\* variant: the probe reports whether the address answers
ProbeResultReachable(opts) == Prop(opts, "url") = "http://ch:8123"

\* index.js 123: return true
ProbeResult(opts) == TRUE

TestConnection(opts) ==
  /\ probes' = Append(probes, [opts |-> opts, result |-> ProbeResult(opts)])
  /\ UNCHANGED <<clients, runners, inv, submissions, log>>

----------------------------------------------------------------------------
Init ==
  /\ clients = <<>>
  /\ runners = <<>>
  /\ inv = <<>>
  /\ submissions = <<>>
  /\ log = <<>>
  /\ probes = <<>>

\* the invocations suspended at the given await
Suspended(pc) == {i \in 1..Len(inv) : inv[i].pc = pc}

\* calls made so far from the host: getRunner, runner and testConnection
Calls == Len(runners) + Len(inv) + Len(probes)

Next ==
  \/ /\ Calls < MaxCalls
     /\ \E options \in Configs : GetRunner(options)
  \/ /\ Calls < MaxCalls
     /\ \E r \in 1..Len(runners), q \in QueryTexts : Runner(r, q)
  \/ \E i \in 1..Len(inv) : QueryResolved(i)
  \/ \E i \in 1..Len(inv), e \in QueryErrors : QueryRejected(i, e)
  \/ \E i \in Suspended("awaitJson") : \E body \in Bodies : JsonResolved(i, body)
  \/ \E i \in 1..Len(inv), e \in JsonErrors : JsonRejected(i, e)
  \/ /\ Calls < MaxCalls
     /\ \E opts \in Configs : TestConnection(opts)

Spec == Init /\ [][Next]_vars

\* One runner, one invocation, every body of up to WideRows rows
NextWide ==
  \/ /\ runners = <<>>
     /\ \E options \in WideConfigs : GetRunner(options)
  \/ /\ inv = <<>>
     /\ \E r \in 1..Len(runners), q \in QueryTexts : Runner(r, q)
  \/ \E i \in 1..Len(inv) : QueryResolved(i)
  \/ \E i \in 1..Len(inv), e \in QueryErrors : QueryRejected(i, e)
  \/ \E i \in Suspended("awaitJson") : \E body \in WideBodies : JsonResolved(i, body)
  \/ \E i \in 1..Len(inv), e \in JsonErrors : JsonRejected(i, e)
  \/ /\ probes = <<>>
     /\ \E opts \in WideConfigs : TestConnection(opts)

SpecWide == Init /\ [][NextWide]_vars

----------------------------------------------------------------------------
(* What the client delivered to invocation i, read from the client's side *)
RequestOf(i) == submissions[inv[i].req]
ClientFailed(i) ==
  RequestOf(i).reply \in QueryErrors \/ RequestOf(i).body.st = "err"
FailureOf(i) ==
  IF RequestOf(i).reply \in QueryErrors THEN RequestOf(i).reply
  ELSE RequestOf(i).body.error
Materialized(i) == RequestOf(i).body.st = "ok"
ErrorLogsOf(i) == {n \in 1..Len(log) : log[n].level = "error" /\ log[n].inv = i}
Invocations == 1..Len(inv)

\* C1: every invocation whose client call failed (client.query or
\* rows.json() rejected) has rethrown that same failure value, has exactly
\* one error entry in the log and has no result object.
Thm_C1 ==
  \A i \in Invocations :
    ClientFailed(i) =>
      /\ inv[i].pc = "thrown"
      /\ inv[i].thrown = FailureOf(i)
      /\ Cardinality(ErrorLogsOf(i)) = 1
      /\ inv[i].output = NoOutput

Wit_C1 ==
  \E i, j \in Invocations :
    /\ RequestOf(i).reply \in QueryErrors /\ inv[i].pc = "thrown"
    /\ RequestOf(j).body.st = "err" /\ inv[j].pc = "thrown"

\* C2: for a non-empty result, the descriptor of each key of the first row
\* is NUMBER exactly when the first row's value is a number and STRING
\* otherwise, whatever the later rows hold; fidelity is always "inferred".
Thm_C2 ==
  \A i \in Invocations :
    (inv[i].pc = "returned" /\ Len(RequestOf(i).body.rows) > 0) =>
      LET first == RequestOf(i).body.rows[1]
          cts == inv[i].output.columnTypes
      IN /\ \A m \in 1..Len(cts) : cts[m].typeFidelity = "inferred"
         /\ \A n \in 1..Len(first) :
              /\ \E m \in 1..Len(cts) : cts[m].name = first[n].k
              /\ \A m \in 1..Len(cts) :
                   cts[m].name = first[n].k =>
                     cts[m].evidenceType =
                       IF first[n].v.t = "number" THEN "number" ELSE "string"

Wit_C2 ==
  \E i \in Invocations :
    /\ inv[i].pc = "returned"
    /\ RequestOf(i).body.rows =
         << <<Entry("a", JsonNull), Entry("b", NumOne)>>,
            <<Entry("a", NumOne), Entry("b", StrX)>> >>
    /\ inv[i].output.columnTypes[1].evidenceType = "string"
    /\ inv[i].output.columnTypes[2].evidenceType = "number"

\* C3: for a non-empty result, columnTypes lists the keys of the first row,
\* one descriptor each and in the first row's order (so none for a key only
\* a later row has), and expectedRowCount is the number of rows.
Thm_C3 ==
  \A i \in Invocations :
    (inv[i].pc = "returned" /\ Len(RequestOf(i).body.rows) > 0) =>
      LET first == RequestOf(i).body.rows[1]
          cts == inv[i].output.columnTypes
      IN /\ Len(cts) = Len(first)
         /\ \A n \in 1..Len(first) : cts[n].name = first[n].k
         /\ inv[i].output.expectedRowCount = Len(RequestOf(i).body.rows)

Wit_C3 ==
  \E i \in Invocations :
    /\ inv[i].pc = "returned"
    /\ RequestOf(i).body.rows =
         << <<Entry("b", StrX)>>, <<Entry("a", NumOne), Entry("b", StrX)>> >>
    /\ Len(inv[i].output.columnTypes) = 1
    /\ inv[i].output.expectedRowCount = 2

\* C4: when the client materializes zero rows the invocation returns, with
\* no error logged, rows empty, columnTypes empty and expectedRowCount 0.
Thm_C4 ==
  \A i \in Invocations :
    (Materialized(i) /\ RequestOf(i).body.rows = <<>>) =>
      /\ inv[i].pc = "returned"
      /\ inv[i].thrown = "none"
      /\ ErrorLogsOf(i) = {}
      /\ inv[i].output = [rows |-> <<>>, columnTypes |-> <<>>, expectedRowCount |-> 0]

Wit_C4 ==
  \E i \in Invocations :
    Materialized(i) /\ RequestOf(i).body.rows = <<>> /\ inv[i].pc = "returned"

\* C5: the rows an invocation returns are the rows the client materialized,
\* same order, every value as delivered (no coercion to the inferred kind).
Thm_C5 ==
  \A i \in Invocations :
    inv[i].pc = "returned" => inv[i].output.rows = RequestOf(i).body.rows

Wit_C5 ==
  \E i \in Invocations :
    /\ inv[i].pc = "returned"
    /\ Len(inv[i].output.rows) = 2
    /\ Len(inv[i].output.columnTypes) = 1
    /\ inv[i].output.columnTypes[1].evidenceType = "number"
    /\ inv[i].output.rows[2] = <<Entry(inv[i].output.columnTypes[1].name, StrX)>>

\* C6: with several invocations in flight, each finished invocation holds
\* the outcome of its own request only (the output built from the body the
\* client delivered to it, or the failure the client raised for it), and a
\* step of one invocation leaves every other invocation as it was.
OwnOutcome ==
  \A i \in Invocations :
    /\ inv[i].pc = "returned" =>
         /\ RequestOf(i).reply = "ResultSet"
         /\ Materialized(i)
         /\ inv[i].output.rows = RequestOf(i).body.rows
         /\ inv[i].output.expectedRowCount = Len(RequestOf(i).body.rows)
         /\ inv[i].thrown = "none"
    /\ inv[i].pc = "thrown" =>
         /\ ClientFailed(i)
         /\ inv[i].thrown = FailureOf(i)
         /\ inv[i].output = NoOutput
    /\ inv[i].pc = "awaitQuery" => RequestOf(i).reply = "pending"
    /\ inv[i].pc = "awaitJson" => RequestOf(i).body.st = "pending"

Thm_C6 ==
  [][/\ OwnOutcome'
     /\ \A i, j \in Invocations :
          (i # j /\ inv'[i] # inv[i]) =>
            (inv'[j] = inv[j] /\ submissions'[inv[j].req] = submissions[inv[j].req])]_vars

Wit_C6 ==
  /\ Len(inv) = 2
  /\ inv[1].runner = inv[2].runner
  /\ inv[1].pc = "awaitJson"
  /\ inv[2].pc = "thrown"

\* C7: testConnection returns true for every configuration (unreachable
\* address and wrong password included), and a call of it creates no client
\* and submits no query.
Thm_C7 ==
  [][/\ \A p \in 1..Len(probes') : probes'[p].result = TRUE
     /\ probes' # probes =>
          (clients' = clients /\ runners' = runners /\ submissions' = submissions)]_vars

Wit_C7 ==
  \E p \in 1..Len(probes) :
    /\ probes[p].opts.url = "http://unreachable:8123"
    /\ probes[p].opts.password = "wrong"
    /\ probes[p].result = TRUE
    /\ clients = <<>>

\* C8: no log entry, debug or error, contains the password of any
\* configuration that was given to getRunner.
Thm_C8 ==
  \A n \in 1..Len(log), r \in 1..Len(runners) :
    \A a \in 1..Len(log[n].args) : log[n].args[a] # runners[r].options.password

Wit_C8 ==
  /\ \E n \in 1..Len(log) : log[n].level = "debug"
  /\ \E n \in 1..Len(log) : log[n].level = "error"
  /\ \E i \in Invocations : inv[i].pc = "returned"

\* C9: the client receives exactly one request per runner invocation, the
\* one carrying that invocation's query text; getRunner submits nothing and
\* a request is added only by a new invocation (no retry after a failure).
Thm_C9 ==
  [][/\ Len(submissions') = Len(inv')
     /\ \A i \in 1..Len(inv') :
          /\ inv'[i].req = i
          /\ submissions'[i].params = [query |-> inv'[i].queryText, format |-> "JSONEachRow"]
     /\ runners' # runners => Len(submissions') = Len(submissions)
     /\ Len(inv') = Len(inv) => Len(submissions') = Len(submissions)]_vars

Wit_C9 ==
  /\ Len(runners) = 2
  /\ \E i \in Invocations : inv[i].pc = "thrown"
  /\ Len(submissions) = 2

\* C10: there is one client handle per getRunner call, holding the url,
\* username and password of that call; every request of a runner goes
\* through that runner's handle, and no step creates a handle other than
\* getRunner or changes an existing one.
Thm_C10 ==
  [][/\ Len(clients') = Len(runners')
     /\ \A r \in 1..Len(runners') :
          /\ runners'[r].client = r
          /\ clients'[r].url = runners'[r].options.url
          /\ clients'[r].username = runners'[r].options.username
          /\ clients'[r].password = runners'[r].options.password
     /\ \A i \in 1..Len(inv') :
          submissions'[inv'[i].req].client = runners'[inv'[i].runner].client
     /\ \A c \in 1..Len(clients) : clients'[c] = clients[c]
     /\ Len(runners') = Len(runners) => Len(clients') = Len(clients)]_vars

Wit_C10 ==
  /\ Len(clients) = 2
  /\ clients[1] # clients[2]
  /\ \E i, j \in Invocations :
       /\ inv[i].runner = 1 /\ inv[i].pc = "thrown"
       /\ inv[j].runner = 1 /\ inv[j].pc = "returned"
       /\ i < j
====
